---- MODULE Spec2Model ----
(***************************************************************************)
(* Model of prac.py, the influencer campaign ROI dashboard: one run of the *)
(* script is load -> clean_and_engineer -> filter -> tabs 1..8.            *)
(*                                                                         *)
(* A frame (pandas DataFrame) is [cols |-> set of column names,            *)
(* rows |-> sequence of records].  A float cell is an exact rational       *)
(* [n |-> numerator, d |-> denominator] with d > 0; NaN is the cell with   *)
(* d = 0.  Calendar dates are integers YYYYMMDD, so that integer order is  *)
(* calendar order and date \div 100 is the year-month.  The columns name,  *)
(* followers and basis are carried by no computation below and are left   *)
(* out of the rows.                                                        *)
(***************************************************************************)
EXTENDS Integers, Sequences, FiniteSets, TLC

VARIABLES pc, df, fspec, data, notice, steps, out, csv, sel

vars == <<pc, df, fspec, data, notice, steps, out, csv, sel>>

(***************************************************************************)
(* Bounds of the model.                                                    *)
(***************************************************************************)
MaxRevenue == 6
MaxPayout == 2
MaxCount == 2
MaxRows == 3
MaxRowsWide == 4
MaxRowsLong == 11
MaxRoiRows == 7

(***************************************************************************)
(* Float cells.                                                            *)
(***************************************************************************)
NaN == [n |-> 0, d |-> 0]

\* +inf is [n |-> 1, d |-> 0], -inf is [n |-> -1, d |-> 0]
Inf(sign) == [n |-> sign, d |-> 0]

Num(i) == [n |-> i, d |-> 1]

Sign(i) == IF i > 0 THEN 1 ELSE IF i < 0 THEN -1 ELSE 0

isna(x) == x.d = 0 /\ x.n = 0

isinf(x) == x.d = 0 /\ x.n # 0

\* Series.replace(0, np.nan) on a numeric cell
replace0(i) == IF i = 0 THEN NaN ELSE Num(i)

\* x / y on float cells (IEEE 754, as pandas and numpy divide): NaN
\* propagates, 0/0 and inf/inf are NaN, x/0 is +-inf, x/inf is 0.
fdiv(x, y) ==
    IF isna(x) \/ isna(y) THEN NaN
    ELSE IF isinf(x) THEN (IF isinf(y) THEN NaN
                           ELSE Inf(x.n * (IF y.n < 0 THEN -1 ELSE 1)))
    ELSE IF isinf(y) THEN Num(0)
    ELSE IF y.n = 0 THEN (IF x.n = 0 THEN NaN ELSE Inf(Sign(x.n)))
    ELSE IF y.n > 0 THEN [n |-> x.n * y.d, d |-> x.d * y.n]
    ELSE [n |-> -(x.n * y.d), d |-> -(x.d * y.n)]

\* x * k for an integer k
fmul(x, k) ==
    IF isna(x) THEN NaN
    ELSE IF isinf(x) THEN (IF k = 0 THEN NaN ELSE Inf(x.n * Sign(k)))
    ELSE [n |-> x.n * k, d |-> x.d]

\* x >= k, x > k for an integer k; every comparison with NaN is False
cell_ge(x, k) == ~isna(x) /\ x.n >= k * x.d

cell_gt(x, k) == ~isna(x) /\ x.n > k * x.d

(***************************************************************************)
(* clean_and_engineer                                                      *)
(***************************************************************************)
BaseCols == {"date", "campaign", "platform", "category", "gender", "reach",
             "likes", "comments", "orders", "revenue", "total_payout"}

DerivedCols == <<"engagement", "engagement_rate", "roas", "roi_percentage",
                 "average_order_value", "performance_category">>

AllCols == BaseCols \cup {DerivedCols[i] : i \in 1..Len(DerivedCols)}

\* the lambda of lines 71-74
performance_category_strict(x) ==
    IF cell_gt(x, 200) THEN "High Performer"
    ELSE IF cell_gt(x, 100) THEN "Good Performer"
    ELSE IF cell_gt(x, 0) THEN "Average Performer"
    ELSE "Poor Performer"

performance_category(x) ==
    IF cell_ge(x, 200) THEN "High Performer"
    ELSE IF cell_ge(x, 100) THEN "Good Performer"
    ELSE IF cell_ge(x, 0) THEN "Average Performer"
    ELSE "Poor Performer"

\* the value the k-th assignment of clean_and_engineer gives row r
derived_noreplace(k, r) ==
    CASE k = 1 -> r.likes + r.comments
      [] k = 2 -> fmul(fdiv(Num(r.engagement), Num(r.reach)), 100)
      [] k = 3 -> fdiv(Num(r.revenue), Num(r.total_payout))
      [] k = 4 -> fmul(fdiv(Num(r.revenue - r.total_payout), Num(r.total_payout)), 100)
      [] k = 5 -> fdiv(Num(r.revenue), Num(r.orders))
      [] k = 6 -> performance_category(r.roi_percentage)

derived(k, r) ==
    CASE k = 1 -> r.likes + r.comments
      [] k = 2 -> fmul(fdiv(Num(r.engagement), replace0(r.reach)), 100)
      [] k = 3 -> fdiv(Num(r.revenue), replace0(r.total_payout))
      [] k = 4 -> fmul(fdiv(Num(r.revenue - r.total_payout), replace0(r.total_payout)), 100)
      [] k = 5 -> fdiv(Num(r.revenue), replace0(r.orders))
      [] k = 6 -> performance_category(r.roi_percentage)

RECURSIVE row_upto(_, _)
\* row r after the first k derived-column assignments (df[col] = ...)
row_upto(r, k) ==
    IF k = 0 THEN r
    ELSE LET p == row_upto(r, k - 1)
         IN p @@ (DerivedCols[k] :> derived(k, p))

\* the frame after the first k derived-column assignments
engineer_upto(f, k) ==
    [cols |-> f.cols \cup {DerivedCols[i] : i \in 1..k},
     rows |-> [i \in 1..Len(f.rows) |-> row_upto(f.rows[i], k)]]

clean_and_engineer(f) == engineer_upto(f, Len(DerivedCols))

(***************************************************************************)
(* Raw rows.                                                               *)
(***************************************************************************)
Dates == {20240101, 20240104, 20240215}
Campaigns == {"New Year", "Spring"}
Platforms == {"Instagram", "YouTube"}
Categories == {"Beauty"}
Genders == {"Female"}
Revenues == (0..MaxRevenue) \cup {250, 3000}
Payouts == (0..MaxPayout) \cup {500, 1000}
Counts == 0..MaxCount

NoFrame == [cols |-> {}, rows |-> <<>>]
NoSpec == [date_min |-> 0, date_max |-> 0, campaigns |-> {}, platforms |-> {},
           categories |-> {}, genders |-> {}, perf_band |-> "All"]
NoOut == [tab |-> 0]
NoSel == [none |-> TRUE]


(***************************************************************************)
(* Helpers over frames.                                                    *)
(***************************************************************************)
RECURSIVE SumCol(_, _)
\* Series.sum() of an integer column
SumCol(rows, col) ==
    IF rows = <<>> THEN 0 ELSE Head(rows)[col] + SumCol(Tail(rows), col)

RECURSIVE take_skipfirst(_, _)
\* df[mask].iloc[1:], a selection that drops its first row
take_skipfirst(rows, mask) ==
    IF rows = <<>> THEN <<>>
    ELSE IF Head(mask) THEN
            LET rest == Tail(rows)
                m == Tail(mask)
            IN SelectSeq([i \in 1..Len(rest) |-> IF m[i] THEN rest[i] ELSE <<>>],
                         LAMBDA r : r # <<>>)
    ELSE take_skipfirst(Tail(rows), Tail(mask))

RECURSIVE take(_, _)
\* df[mask]: the rows whose mask entry is True, in row order
take(rows, mask) ==
    IF rows = <<>> THEN <<>>
    ELSE (IF Head(mask) THEN <<Head(rows)>> ELSE <<>>) \o take(Tail(rows), Tail(mask))

RECURSIVE SortInts(_)
SortInts(S) ==
    IF S = {} THEN <<>>
    ELSE LET m == CHOOSE x \in S : \A y \in S : x <= y
         IN <<m>> \o SortInts(S \ {m})

\* lexicographic order of the categorical values, as sorted() and groupby order them
StrOrder == <<"Beauty", "Female", "Fitness", "Instagram", "Male", "New Year",
              "Spring", "YouTube">>

StrRank(v) == CHOOSE i \in 1..Len(StrOrder) : StrOrder[i] = v

\* Series.unique() as a set
unique(f, col) == {f.rows[i][col] : i \in 1..Len(f.rows)}

(***************************************************************************)
(* Filter (lines 97-148).                                                  *)
(***************************************************************************)
PerfBands == {"All", "High Performer", "Good Performer", "Average Performer",
              "Poor Performer"}

\* what the sidebar widgets can return for the frame f
FilterSpecs(f) ==
    LET ds == unique(f, "date")
        lo == CHOOSE x \in ds : \A y \in ds : x <= y
        hi == CHOOSE x \in ds : \A y \in ds : x >= y
        pick == {d \in Dates : lo <= d /\ d <= hi}
    IN {s \in [date_min : pick, date_max : pick,
               campaigns : SUBSET unique(f, "campaign"),
               platforms : SUBSET unique(f, "platform"),
               categories : SUBSET unique(f, "category"),
               genders : SUBSET unique(f, "gender"),
               perf_band : PerfBands] : s.date_min <= s.date_max}

between_left(d, lo, hi) == lo <= d /\ d < hi

\* Series.between(lo, hi), inclusive on both sides
between(d, lo, hi) == lo <= d /\ d <= hi

isin_emptyall(v, S) == S = {} \/ v \in S

\* Series.isin(values)
isin(v, S) == v \in S

\* the boolean mask flt of lines 133-142
flt(f, s) ==
    [i \in 1..Len(f.rows) |->
        LET r == f.rows[i]
            m == /\ between(r.date, s.date_min, s.date_max)
                 /\ isin(r.campaign, s.campaigns)
                 /\ isin(r.platform, s.platforms)
                 /\ isin(r.category, s.categories)
                 /\ isin(r.gender, s.genders)
        IN IF s.perf_band # "All"
           THEN m /\ r.performance_category = s.perf_band
           ELSE m]

\* data = df[flt]
filtered(f, s) == [cols |-> f.cols, rows |-> take(f.rows, flt(f, s))]

empty_check_nostop(view) ==
    IF Len(view.rows) = 0 THEN [pc |-> "tab1", notice |-> "warning"]
    ELSE [pc |-> "tab1", notice |-> "none"]

\* if data.empty: st.warning(...); st.stop()
empty_check(view) ==
    IF Len(view.rows) = 0 THEN [pc |-> "stopped", notice |-> "warning"]
    ELSE [pc |-> "tab1", notice |-> "none"]

(***************************************************************************)
(* Tab 1: KPI cards, monthly trend, ROI by campaign.                       *)
(***************************************************************************)
\* (revenue - spend) / spend * 100 on numpy floats
roi_of(revenue, spend) == fmul(fdiv(Num(revenue - spend), Num(spend)), 100)

agg_first(g, col) == Head(g)[col]

\* the "sum" reducer of groupby(...).agg
agg_sum(g, col) == SumCol(g, col)

\* to_period("M"): the year-month of a date
month_of(d) == d \div 100

\* trend.groupby("month").agg(revenue, spend, orders), keys ascending
mon(rows) ==
    LET ks == SortInts({month_of(rows[i].date) : i \in 1..Len(rows)})
    IN [j \in 1..Len(ks) |->
          LET g == SelectSeq(rows, LAMBDA r : month_of(r.date) = ks[j])
          IN [month |-> ks[j],
              revenue |-> agg_sum(g, "revenue"),
              spend |-> agg_sum(g, "total_payout"),
              orders |-> agg_sum(g, "orders"),
              roi |-> roi_of(agg_sum(g, "revenue"), agg_sum(g, "total_payout"))]]

\* data.groupby("campaign").agg({"revenue": "sum", "total_payout": "sum"})
camp(rows) ==
    LET ranks == SortInts({StrRank(rows[i].campaign) : i \in 1..Len(rows)})
    IN [j \in 1..Len(ranks) |->
          LET g == SelectSeq(rows, LAMBDA r : StrRank(r.campaign) = ranks[j])
          IN [campaign |-> StrOrder[ranks[j]],
              revenue |-> agg_sum(g, "revenue"),
              total_payout |-> agg_sum(g, "total_payout"),
              roi |-> roi_of(agg_sum(g, "revenue"), agg_sum(g, "total_payout"))]]

kpi(rows) ==
    [revenue |-> SumCol(rows, "revenue"),
     total_payout |-> SumCol(rows, "total_payout"),
     orders |-> SumCol(rows, "orders"),
     reach |-> SumCol(rows, "reach"),
     roi_all |-> roi_of(SumCol(rows, "revenue"), SumCol(rows, "total_payout")),
     cost_per_order |-> fdiv(Num(SumCol(rows, "total_payout")), Num(SumCol(rows, "orders")))]

(***************************************************************************)
(* Tab 2: funnel.  funnel_vals are Python ints, whose division by 0 raises.*)
(***************************************************************************)
funnel_vals(rows) ==
    <<SumCol(rows, "reach"), SumCol(rows, "engagement"), SumCol(rows, "orders"),
      SumCol(rows, "revenue"), SumCol(rows, "total_payout")>>

\* lines 280-285 divide by funnel_vals[0], [1] and [2]
funnel_raises(v) == v[1] = 0 \/ v[2] = 0 \/ v[3] = 0

(***************************************************************************)
(* Tab 3: nlargest / nsmallest.                                            *)
(***************************************************************************)
TopN == 10

FloatCols == {"engagement_rate", "roi_percentage"}

MetricCols == {"engagement_rate", "orders", "roi_percentage", "revenue", "reach"}

\* the metric cell of a row
mval(r, col) == IF col \in FloatCols THEN r[col] ELSE Num(r[col])

cell_less(x, y) == x.n * y.d < y.n * x.d

\* whether index i goes before index j in the stable descending order:
\* keep="last" puts the later row of a tie first
goes_before_last(rows, col, largest, i, j) ==
    LET x == mval(rows[i], col)
        y == mval(rows[j], col)
    IN IF largest THEN cell_less(y, x) ELSE cell_less(x, y)

\* whether index i (met first) stays before index j when j is inserted:
\* argsort(kind="mergesort") moves j ahead of i only when j is strictly better
goes_before(rows, col, largest, i, j) ==
    LET x == mval(rows[i], col)
        y == mval(rows[j], col)
    IN IF largest THEN ~cell_less(x, y) ELSE ~cell_less(y, x)

RECURSIVE insert(_, _, _, _, _)
\* idx with index j inserted after every index that goes before it
insert(rows, col, largest, idx, j) ==
    IF idx = <<>> THEN <<j>>
    ELSE IF goes_before(rows, col, largest, Head(idx), j)
         THEN <<Head(idx)>> \o insert(rows, col, largest, Tail(idx), j)
         ELSE <<j>> \o idx

RECURSIVE stable_order(_, _, _, _)
\* the indices idx (ascending) in stable metric order
stable_order(rows, col, largest, idx) ==
    IF idx = <<>> THEN <<>>
    ELSE LET front == SubSeq(idx, 1, Len(idx) - 1)
         IN insert(rows, col, largest, stable_order(rows, col, largest, front),
                   idx[Len(idx)])

\* DataFrame.nlargest / nsmallest (keep="first") as row indices: the non-null
\* rows in stable metric order, then the null rows in row order, cut at n
select_n(rows, col, largest, n) ==
    LET all == [i \in 1..Len(rows) |-> i]
        ok == SelectSeq(all, LAMBDA i : ~isna(mval(rows[i], col)))
        nan == SelectSeq(all, LAMBDA i : isna(mval(rows[i], col)))
        ord == stable_order(rows, col, largest, ok) \o nan
    IN SubSeq(ord, 1, IF n < Len(ord) THEN n ELSE Len(ord))

nlargest(rows, n, col) == select_n(rows, col, TRUE, n)

nsmallest(rows, n, col) == select_n(rows, col, FALSE, n)

(***************************************************************************)
(* Tab 7: ROI outliers (lines 456-459; the same expression at 561-564).    *)
(***************************************************************************)
RECURSIVE GCD(_, _)
GCD(a, b) == IF b = 0 THEN a ELSE GCD(b, a % b)

LCM(a, b) == (a \div GCD(a, b)) * b

\* the indices of the rows whose roi_percentage is not NaN: Series.mean() and
\* Series.std() skip NaN
roi_valid(rows) ==
    SelectSeq([i \in 1..Len(rows) |-> i], LAMBDA i : ~isna(rows[i].roi_percentage))

RECURSIVE roi_lcm(_, _)
\* a common denominator of the roi_percentage cells at the indices idx
roi_lcm(rows, idx) ==
    IF idx = <<>> THEN 1
    ELSE LET x == rows[Head(idx)].roi_percentage
             d == IF x.d = 0 THEN 1 ELSE x.d \div GCD(IF x.n < 0 THEN -x.n ELSE x.n, x.d)
         IN LCM(d, roi_lcm(rows, Tail(idx)))

\* roi_percentage of row i as an integer number of 1/D
roi_scaled(rows, i, D) ==
    LET x == rows[i].roi_percentage
    IN IF x.d = 0 THEN 0 ELSE (x.n * D) \div x.d

RECURSIVE roi_sum(_, _, _)
roi_sum(rows, idx, D) ==
    IF idx = <<>> THEN 0
    ELSE roi_scaled(rows, Head(idx), D) + roi_sum(rows, Tail(idx), D)

RECURSIVE roi_sqdev(_, _, _, _, _)
\* the sum over idx of (k * x - S)^2, where S / k is the mean
roi_sqdev(rows, idx, D, k, S) ==
    IF idx = <<>> THEN 0
    ELSE LET e == k * roi_scaled(rows, Head(idx), D) - S
         IN e * e + roi_sqdev(rows, Tail(idx), D, k, S)

std_divisor_population(k) == k

\* Series.std() divides the squared deviations by k - 1 (ddof = 1)
std_divisor(k) == k - 1

\* mean and std of the column in integers: with k valid cells x_i = a_i / D,
\* mean = S / (k * D) and std^2 = Q / (k^2 * D^2 * std_divisor(k)); with no
\* valid cell the mean is NaN, with fewer than two the std is NaN
roi_stats(rows) ==
    LET idx == roi_valid(rows)
        k == Len(idx)
        D == roi_lcm(rows, idx)
        S == roi_sum(rows, idx, D)
    IN [k |-> k, D |-> D, S |-> S, Q |-> roi_sqdev(rows, idx, D, k, S),
        mean_nan |-> (k = 0), std_nan |-> (k < 2)]

\* x > mean + 2 * std; False when x, mean or std is NaN
above_2std(x, st) ==
    /\ ~isna(x) /\ ~st.mean_nan /\ ~st.std_nan
    /\ LET e == st.k * ((x.n * st.D) \div x.d) - st.S
       IN e > 0 /\ std_divisor(st.k) * e * e > 4 * st.Q

\* x < mean - 2 * std; False when x, mean or std is NaN
below_2std(x, st) ==
    /\ ~isna(x) /\ ~st.mean_nan /\ ~st.std_nan
    /\ LET e == st.k * ((x.n * st.D) \div x.d) - st.S
       IN e < 0 /\ std_divisor(st.k) * e * e > 4 * st.Q

\* outlier_df as the indices of the selected rows, in row order
outlier_df(rows) ==
    LET st == roi_stats(rows)
    IN SelectSeq([i \in 1..Len(rows) |-> i],
                 LAMBDA i : \/ above_2std(rows[i].roi_percentage, st)
                            \/ below_2std(rows[i].roi_percentage, st))

(***************************************************************************)
(* Tab 6: data["year_month"] = ... assigns a column on the view itself.    *)
(***************************************************************************)
with_year_month(view) ==
    [cols |-> view.cols \cup {"year_month"},
     rows |-> [i \in 1..Len(view.rows) |->
                 view.rows[i] @@ ("year_month" :> month_of(view.rows[i].date))]]

(***************************************************************************)
(* Spec: one run of the script.                                            *)
(***************************************************************************)
\* the rows an uploaded file can hold
Pool ==
    {[date |-> 20240101, campaign |-> "Spring", platform |-> "Instagram",
      category |-> "Beauty", gender |-> "Female", reach |-> 100, likes |-> 3,
      comments |-> 1, orders |-> 2, revenue |-> 3000, total_payout |-> 1000],
     [date |-> 20240104, campaign |-> "New Year", platform |-> "YouTube",
      category |-> "Fitness", gender |-> "Male", reach |-> 80, likes |-> 2,
      comments |-> 1, orders |-> 1, revenue |-> 250, total_payout |-> 500],
     [date |-> 20240215, campaign |-> "Spring", platform |-> "YouTube",
      category |-> "Beauty", gender |-> "Female", reach |-> 0, likes |-> 0,
      comments |-> 0, orders |-> 0, revenue |-> 0, total_payout |-> 0],
     [date |-> 20240215, campaign |-> "New Year", platform |-> "Instagram",
      category |-> "Beauty", gender |-> "Female", reach |-> 50, likes |-> 1,
      comments |-> 0, orders |-> 1, revenue |-> 200, total_payout |-> 100]}

RawFrames ==
    {[cols |-> BaseCols, rows |-> rs] :
        rs \in UNION {[1..k -> Pool] : k \in 1..MaxRows}}

\* the number of derived columns assigned before clean_and_engineer raises:
\* 0 unreadable file, unparseable date or missing likes/comments, 1 missing
\* reach, 2 missing revenue/total_payout, 4 missing orders
FailPoints == {0, 1, 2, 4}

Init ==
    /\ pc = "start"
    /\ df = NoFrame
    /\ fspec = NoSpec
    /\ data = NoFrame
    /\ notice = "none"
    /\ steps = <<>>
    /\ out = NoOut
    /\ csv = NoFrame
    /\ sel = NoSel

\* lines 78-92, the file loads and normalizes
LoadOk ==
    /\ pc = "start"
    /\ \E raw \in RawFrames : df' = clean_and_engineer(raw)
    /\ pc' = "filter"
    /\ UNCHANGED <<fspec, data, notice, steps, out, csv, sel>>

LoadFailContinue ==
    /\ pc = "start"
    /\ \E raw \in RawFrames, k \in FailPoints : df' = engineer_upto(raw, k)
    /\ notice' = "error"
    /\ pc' = "filter"
    /\ UNCHANGED <<fspec, data, steps, out, csv, sel>>

\* lines 78-92, pd.read_* or clean_and_engineer raises: the except branch
\* reports the error and stops the run (uploaded file); without an upload the
\* exception of the sample file ends the run
LoadFail ==
    /\ pc = "start"
    /\ \E raw \in RawFrames, k \in FailPoints : df' = engineer_upto(raw, k)
    /\ \E uploaded \in BOOLEAN : notice' = IF uploaded THEN "error" ELSE "exception"
    /\ pc' = "stopped"
    /\ UNCHANGED <<fspec, data, steps, out, csv, sel>>

\* lines 97-148: the widgets return a FilterSpec, the view is computed, an
\* empty view warns and stops
ApplyFilter ==
    /\ pc = "filter"
    /\ \E s \in FilterSpecs(df) :
          /\ fspec' = s
          /\ data' = filtered(df, s)
          /\ pc' = empty_check(filtered(df, s)).pc
          /\ notice' = empty_check(filtered(df, s)).notice
    /\ UNCHANGED <<df, steps, out, csv, sel>>

Tab1 ==
    /\ pc = "tab1"
    /\ out' = [tab |-> 1, kpi |-> kpi(data.rows), mon |-> mon(data.rows),
               camp |-> camp(data.rows)]
    /\ steps' = Append(steps, "tab1")
    /\ pc' = "tab2"
    /\ UNCHANGED <<df, fspec, data, notice, csv, sel>>

Tab2 ==
    /\ pc = "tab2"
    /\ out' = [tab |-> 2, funnel_vals |-> funnel_vals(data.rows)]
    /\ steps' = Append(steps, "tab2")
    /\ IF funnel_raises(funnel_vals(data.rows))
       THEN pc' = "stopped" /\ notice' = "exception"
       ELSE pc' = "tab3" /\ notice' = notice
    /\ UNCHANGED <<df, fspec, data, csv, sel>>

Tab3 ==
    /\ pc = "tab3"
    /\ \E metric_col \in MetricCols :
          out' = [tab |-> 3, metric_col |-> metric_col,
                  top |-> nlargest(data.rows, TopN, metric_col),
                  bottom |-> nsmallest(data.rows, TopN, metric_col)]
    /\ steps' = Append(steps, "tab3")
    /\ pc' = "tab4"
    /\ UNCHANGED <<df, fspec, data, notice, csv, sel>>

\* tabs 4 and 5 read the view (groupby size, groupby mean) for charts only
Tab4 ==
    /\ pc = "tab4"
    /\ out' = [tab |-> 4]
    /\ steps' = Append(steps, "tab4")
    /\ pc' = "tab5"
    /\ UNCHANGED <<df, fspec, data, notice, csv, sel>>

Tab5 ==
    /\ pc = "tab5"
    /\ out' = [tab |-> 5]
    /\ steps' = Append(steps, "tab5")
    /\ pc' = "tab6"
    /\ UNCHANGED <<df, fspec, data, notice, csv, sel>>

Tab6 ==
    /\ pc = "tab6"
    /\ data' = with_year_month(data)
    /\ out' = [tab |-> 6]
    /\ steps' = Append(steps, "tab6")
    /\ pc' = "tab7"
    /\ UNCHANGED <<df, fspec, notice, csv, sel>>

Tab7 ==
    /\ pc = "tab7"
    /\ out' = [tab |-> 7, outlier_df |-> outlier_df(data.rows)]
    /\ steps' = Append(steps, "tab7")
    /\ pc' = "tab8"
    /\ UNCHANGED <<df, fspec, data, notice, csv, sel>>

\* data.to_csv(index=False): every column and row of data
Tab8 ==
    /\ pc = "tab8"
    /\ csv' = data
    /\ out' = [tab |-> 8]
    /\ steps' = Append(steps, "tab8")
    /\ pc' = "done"
    /\ UNCHANGED <<df, fspec, data, notice, sel>>

Next ==
    \/ LoadOk
    \/ LoadFail
    \/ ApplyFilter
    \/ Tab1
    \/ Tab2
    \/ Tab3
    \/ Tab4
    \/ Tab5
    \/ Tab6
    \/ Tab7
    \/ Tab8

Spec == Init /\ [][Next]_vars

\* rows that differ in the numeric columns only
MetricRows ==
    [date : {20240101}, campaign : {"Spring"}, platform : {"Instagram"},
     category : {"Beauty"}, gender : {"Female"},
     reach : Counts, likes : Counts, comments : Counts, orders : Counts,
     revenue : Revenues, total_payout : Payouts]

(***************************************************************************)
(* SpecEnrich: clean_and_engineer on every one-row frame of MetricRows.    *)
(***************************************************************************)
InitEnrich ==
    /\ pc = "raw"
    /\ \E r \in MetricRows : df = [cols |-> BaseCols, rows |-> <<r>>]
    /\ fspec = NoSpec
    /\ data = NoFrame
    /\ notice = "none"
    /\ steps = <<>>
    /\ out = NoOut
    /\ csv = NoFrame
    /\ sel = NoSel

EnrichOne ==
    /\ pc = "raw"
    /\ df' = clean_and_engineer(df)
    /\ pc' = "enriched"
    /\ UNCHANGED <<fspec, data, notice, steps, out, csv, sel>>

NextEnrich == EnrichOne

SpecEnrich == InitEnrich /\ [][NextEnrich]_vars

\* the enriched row of SpecEnrich
Row == df.rows[1]

\* C1: for every record with total_payout = 0, enrichment leaves roas and
\* roi_percentage null and sets performance_category to Unclassified.
C1_ZeroPayoutUnclassified ==
    (pc = "enriched" /\ Row.total_payout = 0) =>
        /\ isna(Row.roas)
        /\ isna(Row.roi_percentage)
        /\ Row.performance_category = "Unclassified"

\* C2: for every record with total_payout > 0 the category is decided by
\* roi_percentage = (revenue - total_payout) / total_payout * 100 with inclusive
\* lower bounds: >= 200 High, [100, 200) Good, [0, 100) Average, < 0 Poor.
C2_BandsPartition ==
    (pc = "enriched" /\ Row.total_payout > 0) =>
        LET p == Row.total_payout
            g == (Row.revenue - p) * 100
            c == Row.performance_category
        IN /\ c \in {"High Performer", "Good Performer", "Average Performer", "Poor Performer"}
           /\ (c = "High Performer") <=> (g >= 200 * p)
           /\ (c = "Good Performer") <=> (g >= 100 * p /\ g < 200 * p)
           /\ (c = "Average Performer") <=> (g >= 0 /\ g < 100 * p)
           /\ (c = "Poor Performer") <=> (g < 0)
           /\ (p = 1000 /\ Row.revenue = 3000) => c = "High Performer"
           /\ (p = 500 /\ Row.revenue = 250) => c = "Poor Performer"

C2_Witness ==
    /\ pc = "enriched"
    /\ Row.total_payout = 1000
    /\ Row.revenue = 3000
    /\ Row.performance_category = "High Performer"

\* C3: after enrichment a derived ratio is null exactly when its denominator is
\* zero (engagement_rate/reach, roas and roi_percentage/total_payout,
\* average_order_value/orders); with a zero denominator it is a null cell,
\* not an error and not 0.
C3_ZeroDenominatorNull ==
    pc = "enriched" =>
        /\ isna(Row.engagement_rate) <=> (Row.reach = 0)
        /\ isna(Row.roas) <=> (Row.total_payout = 0)
        /\ isna(Row.roi_percentage) <=> (Row.total_payout = 0)
        /\ isna(Row.average_order_value) <=> (Row.orders = 0)
        /\ Row.reach = 0 => Row.engagement_rate # Num(0)
        /\ Row.total_payout = 0 => (Row.roas # Num(0) /\ Row.roi_percentage # Num(0))
        /\ Row.orders = 0 => Row.average_order_value # Num(0)

C3_Witness ==
    /\ pc = "enriched"
    /\ Row.reach = 0 /\ Row.total_payout = 0 /\ Row.orders = 0
    /\ Row.likes > 0 /\ Row.revenue > 0
    /\ isna(Row.engagement_rate) /\ isna(Row.roas) /\ isna(Row.average_order_value)


(***************************************************************************)
(* Properties of Spec.                                                     *)
(***************************************************************************)
\* the filter has run in this state
FilterRan == fspec # NoSpec

\* a row satisfies every predicate of the FilterSpec s
Satisfies(r, s) ==
    /\ r.date >= s.date_min
    /\ r.date <= s.date_max
    /\ r.campaign \in s.campaigns
    /\ r.platform \in s.platforms
    /\ r.category \in s.categories
    /\ r.gender \in s.genders
    /\ (s.perf_band = "All" \/ r.performance_category = s.perf_band)

\* the j-th smallest element of a set of integers
Nth(S, j) == CHOOSE i \in S : Cardinality({k \in S : k < i}) = j - 1

\* C4: the filtered view is exactly the subsequence, in row order, of the
\* records of the Dataset that satisfy all predicates of the FilterSpec at once.
C4_FilterExact ==
    (FilterRan /\ steps = <<>>) =>
        LET sat == {i \in 1..Len(df.rows) : Satisfies(df.rows[i], fspec)}
        IN /\ data.cols = df.cols
           /\ Len(data.rows) = Cardinality(sat)
           /\ \A j \in 1..Len(data.rows) : data.rows[j] = df.rows[Nth(sat, j)]

C4_Witness ==
    /\ FilterRan
    /\ steps = <<>>
    /\ Len(df.rows) = 3
    /\ data.rows = <<df.rows[1], df.rows[3]>>
    /\ df.rows[1] # df.rows[3]
    /\ fspec.perf_band = "Poor Performer"
    /\ df.rows[2].performance_category = "High Performer"
    /\ df.rows[2].campaign \in fspec.campaigns
    /\ df.rows[2].platform \in fspec.platforms

\* C5: if any multiselect set of the FilterSpec is empty, the view has zero
\* rows whatever the Dataset and the other filter settings are.
C5_EmptySelectionMatchesNothing ==
    (FilterRan /\ (fspec.campaigns = {} \/ fspec.platforms = {}
                   \/ fspec.categories = {} \/ fspec.genders = {})) =>
        Len(data.rows) = 0

C5_Witness ==
    /\ FilterRan
    /\ fspec.platforms = {}
    /\ fspec.campaigns = unique(df, "campaign")
    /\ fspec.categories = unique(df, "category")
    /\ fspec.genders = unique(df, "gender")
    /\ fspec.perf_band = "All"
    /\ \A i \in 1..Len(df.rows) :
          fspec.date_min <= df.rows[i].date /\ df.rows[i].date <= fspec.date_max
    /\ Len(df.rows) = 3
    /\ Len(data.rows) = 0

\* C6: an empty view signals the warning and the run stops with no tab
\* executed and nothing exported; a non-empty view signals no warning and the
\* tabs proceed.
C6_EmptyViewHalts ==
    FilterRan =>
        /\ Len(data.rows) = 0 =>
              /\ notice = "warning"
              /\ pc = "stopped"
              /\ steps = <<>>
              /\ out = NoOut
              /\ csv = NoFrame
        /\ Len(data.rows) > 0 =>
              /\ notice # "warning"
              /\ (pc = "tab1" \/ steps # <<>>)

C6_Witness ==
    /\ FilterRan
    /\ Len(df.rows) > 0
    /\ Len(data.rows) = 0
    /\ notice = "warning"
    /\ pc = "stopped"

\* C7: after normalization no step adds, removes or changes a column or a
\* value of the Dataset or of the filtered view, and the exported CSV is the
\* view the filter produced.
C7_ViewReadOnly ==
    [][FilterRan => /\ df' = df
                    /\ data' = data
                    /\ (csv' # csv => csv' = filtered(df, fspec))]_vars

\* C8: a failed load reports the error and stops before the filter, any tab or
\* the export; every state in which a consumer reads the Dataset has all
\* derived columns on all rows.
C8_LoadFailureStops ==
    /\ notice = "error" =>
          /\ pc = "stopped"
          /\ ~FilterRan
          /\ data = NoFrame
          /\ steps = <<>>
          /\ out = NoOut
          /\ csv = NoFrame
    /\ (pc \notin {"start", "stopped"} \/ FilterRan) =>
          /\ df.cols = AllCols
          /\ \A i \in 1..Len(df.rows) : DOMAIN df.rows[i] = AllCols

C8_Witness ==
    /\ notice = "error"
    /\ pc = "stopped"
    /\ "engagement_rate" \in df.cols
    /\ "average_order_value" \notin df.cols
    /\ Len(df.rows) = 2

RECURSIVE SumField(_, _)
\* the sum of field f over a sequence of group rows
SumField(groups, f) ==
    IF groups = <<>> THEN 0 ELSE Head(groups)[f] + SumField(Tail(groups), f)

\* C9: for a non-empty view the per-group sums of revenue, total_payout and
\* orders by month, and of revenue and total_payout by campaign, add up to the
\* sums over the whole view, and every record falls in exactly one group.
C9_GroupSumsAddUp ==
    out.tab = 1 =>
        /\ SumField(out.mon, "revenue") = SumCol(data.rows, "revenue")
        /\ SumField(out.mon, "spend") = SumCol(data.rows, "total_payout")
        /\ SumField(out.mon, "orders") = SumCol(data.rows, "orders")
        /\ SumField(out.camp, "revenue") = SumCol(data.rows, "revenue")
        /\ SumField(out.camp, "total_payout") = SumCol(data.rows, "total_payout")
        /\ SumField(out.mon, "revenue") = out.kpi.revenue
        /\ SumField(out.mon, "spend") = out.kpi.total_payout
        /\ SumField(out.mon, "orders") = out.kpi.orders
        /\ \A i \in 1..Len(data.rows) :
              /\ Cardinality({j \in 1..Len(out.mon) :
                    out.mon[j].month = data.rows[i].date \div 100}) = 1
              /\ Cardinality({j \in 1..Len(out.camp) :
                    out.camp[j].campaign = data.rows[i].campaign}) = 1

C9_Witness ==
    /\ out.tab = 1
    /\ Len(data.rows) = 3
    /\ Len(out.mon) = 2
    /\ Len(out.camp) = 2
    /\ out.mon[1].revenue = 3250
    /\ out.mon[1].spend = 1500
    /\ out.camp[1].revenue = 450

(***************************************************************************)
(* SpecTopN: nlargest and nsmallest on every bounded revenue column.       *)
(***************************************************************************)
TopNs == {3, TopN}

TopNInputs ==
    UNION {[1..k -> [revenue : {50, 100, 300}]] : k \in 1..MaxRowsWide}
    \cup UNION {[1..k -> [revenue : {100, 300}]] : k \in 1..MaxRowsLong}

InitTopN ==
    /\ pc = "select"
    /\ \E rs \in TopNInputs, n \in TopNs :
          sel = [rows |-> rs, n |-> n, top |-> <<>>, bottom |-> <<>>]
    /\ df = NoFrame
    /\ fspec = NoSpec
    /\ data = NoFrame
    /\ notice = "none"
    /\ steps = <<>>
    /\ out = NoOut
    /\ csv = NoFrame

SelectTopBottom ==
    /\ pc = "select"
    /\ sel' = [sel EXCEPT !.top = nlargest(sel.rows, sel.n, "revenue"),
                          !.bottom = nsmallest(sel.rows, sel.n, "revenue")]
    /\ pc' = "selected"
    /\ UNCHANGED <<df, fspec, data, notice, steps, out, csv>>

NextTopN == SelectTopBottom

SpecTopN == InitTopN /\ [][NextTopN]_vars

Range(q) == {q[i] : i \in 1..Len(q)}

\* index i is ranked ahead of index j: better metric, or equal metric and
\* earlier row
Ahead(rows, largest, i, j) ==
    \/ IF largest THEN rows[i].revenue > rows[j].revenue
                  ELSE rows[i].revenue < rows[j].revenue
    \/ rows[i].revenue = rows[j].revenue /\ i < j

\* q is the first min(n, Len(rows)) rows of the ranking
IsSelection(q, rows, n, largest) ==
    /\ Len(q) = (IF n < Len(rows) THEN n ELSE Len(rows))
    /\ Range(q) \subseteq 1..Len(rows)
    /\ \A a, b \in 1..Len(q) : a < b => Ahead(rows, largest, q[a], q[b])
    /\ \A a \in 1..Len(q) : \A j \in (1..Len(rows)) \ Range(q) :
          Ahead(rows, largest, q[a], j)

\* C10: Top-N (Bottom-N) returns the N records with the largest (smallest)
\* metric values in descending (ascending) metric order, equal values in
\* original row order, also when a tie straddles the cut-off; Top-3 by revenue
\* of [100, 300, 300, 50] is rows 2, 3, 1.
C10_TopNStable ==
    pc = "selected" =>
        /\ IsSelection(sel.top, sel.rows, sel.n, TRUE)
        /\ IsSelection(sel.bottom, sel.rows, sel.n, FALSE)
        /\ (sel.n = 3 /\ sel.rows = <<[revenue |-> 100], [revenue |-> 300],
                                      [revenue |-> 300], [revenue |-> 50]>>)
              => sel.top = <<2, 3, 1>>

C10_Witness ==
    /\ pc = "selected"
    /\ sel.n = TopN
    /\ Len(sel.rows) = TopN + 1
    /\ sel.rows[TopN].revenue = 100
    /\ sel.rows[TopN + 1].revenue = 100
    /\ sel.rows[1].revenue = 300
    /\ TopN \in Range(sel.top)
    /\ (TopN + 1) \notin Range(sel.top)
    /\ 1 \in Range(sel.top)

(***************************************************************************)
(* SpecOutlier: outlier_df on every bounded roi_percentage column.         *)
(***************************************************************************)
RoiInputs ==
    UNION {[1..k -> [roi_percentage : {NaN, Num(10), Num(20), Num(30), Num(1000)}]] :
              k \in 1..MaxRowsWide}
    \cup UNION {[1..k -> [roi_percentage : {NaN, Num(10), Num(250), Num(1000)}]] :
              k \in 1..MaxRoiRows}

InitOutlier ==
    /\ pc = "view"
    /\ \E rs \in RoiInputs : sel = [rows |-> rs, outlier_df |-> <<>>]
    /\ df = NoFrame
    /\ fspec = NoSpec
    /\ data = NoFrame
    /\ notice = "none"
    /\ steps = <<>>
    /\ out = NoOut
    /\ csv = NoFrame

FindOutliers ==
    /\ pc = "view"
    /\ sel' = [sel EXCEPT !.outlier_df = outlier_df(sel.rows)]
    /\ pc' = "outliers"
    /\ UNCHANGED <<df, fspec, data, notice, steps, out, csv>>

NextOutlier == FindOutliers

SpecOutlier == InitOutlier /\ [][NextOutlier]_vars

\* the non-null roi_percentage values of the view of SpecOutlier (integers)
RoiValid == {i \in 1..Len(sel.rows) : sel.rows[i].roi_percentage.d # 0}

RECURSIVE SumOver(_, _, _)
\* the sum of x^p (p = 1 or 2) over the rows with index in I
SumOver(rows, I, p) ==
    IF I = {} THEN 0
    ELSE LET i == CHOOSE j \in I : TRUE
             x == rows[i].roi_percentage.n
         IN (IF p = 1 THEN x ELSE x * x) + SumOver(rows, I \ {i}, p)

\* row i lies strictly more than 2 sample standard deviations from the mean
\* of the k non-null values: (x - S/k)^2 > 4 * (SS - S^2/k) / (k - 1)
FarFromMean(rows, I, i) ==
    LET k == Cardinality(I)
        S == SumOver(rows, I, 1)
        SS == SumOver(rows, I, 2)
        x == rows[i].roi_percentage.n
    IN k >= 2 /\ (k - 1) * (k * x - S) * (k * x - S) > 4 * k * (k * SS - S * S)

\* C11: a record is reported as an ROI outlier iff its roi_percentage is
\* non-null and lies strictly more than 2 sample standard deviations (n - 1)
\* from the mean of the non-null values; null records count in neither
\* statistic and are never reported; [10, 20, 30, 1000] has no outlier.
C11_OutlierIffBeyond2SampleStd ==
    pc = "outliers" =>
        /\ \A i \in 1..Len(sel.rows) :
              (i \in Range(sel.outlier_df)) <=>
                  (i \in RoiValid /\ FarFromMean(sel.rows, RoiValid, i))
        /\ \A a, b \in 1..Len(sel.outlier_df) :
              a < b => sel.outlier_df[a] < sel.outlier_df[b]
        /\ sel.rows = <<[roi_percentage |-> Num(10)], [roi_percentage |-> Num(20)],
                        [roi_percentage |-> Num(30)], [roi_percentage |-> Num(1000)]>>
              => sel.outlier_df = <<>>

C11_Witness ==
    /\ pc = "outliers"
    /\ Len(sel.rows) = 7
    /\ isna(sel.rows[1].roi_percentage)
    /\ sel.rows[7].roi_percentage = Num(1000)
    /\ sel.outlier_df = <<7>>

(***************************************************************************)
(* SpecRefilter: the filter applied to a Dataset and again to its view.    *)
(***************************************************************************)
InitRefilter ==
    /\ pc = "filter"
    /\ \E raw \in RawFrames : df = clean_and_engineer(raw)
    /\ fspec = NoSpec
    /\ data = NoFrame
    /\ notice = "none"
    /\ steps = <<>>
    /\ out = NoOut
    /\ csv = NoFrame
    /\ sel = NoSel

Refilter ==
    /\ pc = "filter"
    /\ \E s \in FilterSpecs(df) :
          /\ fspec' = s
          /\ data' = filtered(df, s)
          /\ sel' = [again |-> filtered(filtered(df, s), s)]
    /\ pc' = "refiltered"
    /\ UNCHANGED <<df, notice, steps, out, csv>>

NextRefilter == Refilter

SpecRefilter == InitRefilter /\ [][NextRefilter]_vars

\* C12: filtering is idempotent: applying the FilterSpec to the view it
\* produced yields that same view, same records in the same order.
C12_FilterIdempotent ==
    pc = "refiltered" => sel.again = data

C12_Witness ==
    /\ pc = "refiltered"
    /\ Len(df.rows) = 3
    /\ Len(data.rows) = 2
    /\ data.rows[1] # data.rows[2]
    /\ sel.again.rows = data.rows
    /\ fspec.perf_band # "All"

\* C13: for every non-empty view the view-level ratio computations (overall
\* ROI, cost per order, the funnel ratios) complete without raising, also when
\* the view's total reach, engagement, orders or payout is zero.
C13_ViewRatiosNeverRaise ==
    (FilterRan /\ Len(data.rows) > 0) => (notice # "exception" /\ pc # "stopped")

====
